---- MODULE Spec2Model ----
(***************************************************************************)
(* Model of the tree / fiber utilities of soda-hooks (src/src/index.ts):   *)
(* treeToFiber, getNextFiber, walkThroughFiber and useSearchTree.          *)
(*                                                                         *)
(* Objects live in heaps.  A tree node is identified by its payload id; a  *)
(* fiber is identified by its allocation index in `fibers`; an output node *)
(* of the search by its allocation index in `outNodes`.  0 stands for      *)
(* null / undefined wherever a reference is expected.                      *)
(***************************************************************************)
EXTENDS Integers, Sequences, FiniteSets, TLC

\* ------------------------------------------------------------------ bounds
MaxNodes == 4
MaxEmptyLists == 1

\* ------------------------------------------------------- input tree nodes
\* the elements of S as a sequence, ascending (rev = FALSE) or descending
RECURSIVE OrderedSeq(_, _)
OrderedSeq(S, rev) ==
    IF S = {} THEN <<>>
    ELSE LET x == IF rev THEN CHOOSE y \in S : \A z \in S : z <= y
                         ELSE CHOOSE y \in S : \A z \in S : y <= z
         IN <<x>> \o OrderedSeq(S \ {x}, rev)

\* parent assignments of n nodes that form a forest (0 = top level)
ParentMaps(n) ==
    { p \in [1..n -> 0..n] : \A i \in 1..n : p[i] < i }

\* TreeNode<T>[]: roots is the array passed in, children[i] the children
\* array of node i, hasChildren[i] whether node i has a children field at all
TreeNode(n, p, rev, E) ==
    [ roots       |-> OrderedSeq({ j \in 1..n : p[j] = 0 }, rev),
      children    |-> [ i \in 1..n |-> OrderedSeq({ j \in 1..n : p[j] = i }, rev) ],
      hasChildren |-> [ i \in 1..n |-> ({ j \in 1..n : p[j] = i } # {}) \/ i \in E ] ]

Forests ==
    UNION { { TreeNode(n, p, rev, E) :
                p \in ParentMaps(n), rev \in BOOLEAN,
                E \in { S \in SUBSET (1..n) : Cardinality(S) <= MaxEmptyLists } }
            : n \in 0..MaxNodes }

\* ------------------------------------------------------------- treeToFiber
\* a variant that leaves the parent reference null
TreeFiber_noParent(data, parent) ==
    [ data |-> data, parent |-> 0, child |-> 0, sibling |-> 0 ]

\* TreeFiber<T>: payload plus parent / child / sibling references
TreeFiber(data, parent) ==
    [ data |-> data, parent |-> parent, child |-> 0, sibling |-> 0 ]

\* a variant that overwrites `first` with every fiber created
firstOrElse_overwrite(firstSoFar, fiber) == fiber

\* first ??= fiber
firstOrElse(firstSoFar, fiber) == IF firstSoFar = 0 THEN fiber ELSE firstSoFar

\* a variant that makes every new fiber the child of its parent
linkChild_overwrite(h, parent, fiber) ==
    IF parent # 0 THEN [h EXCEPT ![parent].child = fiber] ELSE h

\* if (parent && !parent.child) parent.child = fiber
linkChild(h, parent, fiber) ==
    IF parent # 0 /\ h[parent].child = 0
      THEN [h EXCEPT ![parent].child = fiber] ELSE h

\* createFiber(tree, parent): the forEach over `items`, `prev` carried along;
\* st = [fibers, first] is the heap of fibers built so far and `first`
RECURSIVE createFiber(_, _, _, _, _)
createFiber(T, items, parent, prev, st) ==
    IF items = <<>> THEN st
    ELSE
      LET item  == Head(items)
          fiber == Len(st.fibers) + 1
          h1 == Append(st.fibers, TreeFiber(item, parent))
          h2 == linkChild(h1, parent, fiber)
          h3 == IF prev # 0 THEN [h2 EXCEPT ![prev].sibling = fiber] ELSE h2
          s3 == [ fibers |-> h3,
                  first  |-> firstOrElse(st.first, fiber) ]
          s4 == IF T.hasChildren[item]
                  THEN createFiber(T, T.children[item], fiber, 0, s3)
                  ELSE s3
      IN createFiber(T, Tail(items), parent, fiber, s4)

\* treeToFiber(tree): throws on the empty array, else returns `first`
treeToFiber(T) ==
    IF Len(T.roots) = 0
      THEN [ fibers |-> <<>>, first |-> 0, err |-> "EmptyTree" ]
      ELSE LET st == createFiber(T, T.roots, 0, 0, [ fibers |-> <<>>, first |-> 0 ])
           IN [ fibers |-> st.fibers, first |-> st.first, err |-> "none" ]

\* ------------------------------------------------------------ getNextFiber
\* a variant that goes back to a parent that has no sibling
RECURSIVE nextOfParents_backToParent(_, _)
nextOfParents_backToParent(F, parent) ==
    IF parent = 0 THEN 0
    ELSE IF F[parent].sibling # 0 THEN F[parent].sibling
    ELSE parent

\* the while (parent) loop of getNextFiber
RECURSIVE nextOfParents(_, _)
nextOfParents(F, parent) ==
    IF parent = 0 THEN 0
    ELSE IF F[parent].sibling # 0 THEN F[parent].sibling
    ELSE nextOfParents(F, F[parent].parent)

\* a variant that prefers the sibling over the child
getNextFiber_siblingFirst(F, fiber) ==
    IF F[fiber].sibling # 0 THEN F[fiber].sibling
    ELSE IF F[fiber].child # 0 THEN F[fiber].child
    ELSE nextOfParents(F, F[fiber].parent)

getNextFiber(F, fiber) ==
    IF F[fiber].child # 0 THEN F[fiber].child
    ELSE IF F[fiber].sibling # 0 THEN F[fiber].sibling
    ELSE nextOfParents(F, F[fiber].parent)

\* a variant without the guard
walkThrows_never(F, fiber) == FALSE

\* the guard of walkThroughFiber: it throws when fiber.parent is set
walkThrows(F, fiber) == F[fiber].parent # 0

\* ----------------------------------------------------------- useSearchTree
\* a variant whose loop answers true when it runs off the top of the tree
RECURSIVE someParentIn_rootTrue(_, _, _)
someParentIn_rootTrue(F, tf, parent) ==
    IF parent = 0 THEN TRUE
    ELSE IF parent \in tf THEN TRUE
    ELSE someParentIn_rootTrue(F, tf, F[parent].parent)

\* the while (parent) loop of parentIsTrue
RECURSIVE someParentIn(_, _, _)
someParentIn(F, tf, parent) ==
    IF parent = 0 THEN FALSE
    ELSE IF parent \in tf THEN TRUE
    ELSE someParentIn(F, tf, F[parent].parent)

\* a variant that looks at the direct parent only
parentIsTrue_direct(F, tf, fiber) == F[fiber].parent \in tf

parentIsTrue(F, tf, fiber) == someParentIn(F, tf, F[fiber].parent)

\* the output node made for a fiber: transform(others, isTrue, hasParentIsTrue)
\* when a transform is given (it keeps the two flags), else `others` itself
outputNode(data, tr, isTrue, hasParentIsTrue) ==
    [ data |-> data, flagged |-> tr,
      isTrue |-> tr /\ isTrue, hasParentIsTrue |-> tr /\ hasParentIsTrue,
      hasChildren |-> FALSE, children |-> <<>> ]

\* a variant that puts the node in front (unshift)
pushNode_front(arr, node) == <<node>> \o arr

\* where a freshly made node goes in a children array (or in searchTree)
pushNode(arr, node) == Append(arr, node)

\* a variant that never finds the parent in the map
parentMissing_always(map, parent) == TRUE

\* !addedFiberMap.get(parent): output nodes are objects, so the test is
\* whether the map has the key
parentMissing(map, parent) == parent \notin DOMAIN map

\* addFiberToTree(fiber); r is the search state
\* [searchTree, outNodes, addedFiberMap, trueFibers, transformCalls]
RECURSIVE addFiberToTree(_, _, _, _)
addFiberToTree(F, tr, fiber, r) ==
    LET parent == F[fiber].parent
        isTrue == fiber \in r.trueFibers
        hasParentIsTrue == parentIsTrue(F, r.trueFibers, fiber)
        node == Len(r.outNodes) + 1
        r1 == [ r EXCEPT
                  !.outNodes = Append(@, outputNode(F[fiber].data, tr, isTrue, hasParentIsTrue)),
                  !.transformCalls =
                      IF tr THEN Append(@, [ fiber |-> fiber, isTrue |-> isTrue,
                                             hasParentIsTrue |-> hasParentIsTrue ])
                            ELSE @,
                  !.addedFiberMap = (fiber :> node) @@ @ ]
    IN IF parent = 0
         THEN [ r1 EXCEPT !.searchTree = pushNode(@, node) ]
         ELSE LET r2 == IF parentMissing(r1.addedFiberMap, parent)
                          THEN addFiberToTree(F, tr, parent, r1) ELSE r1
                  parentNode == r2.addedFiberMap[parent]
              IN [ r2 EXCEPT !.outNodes[parentNode].hasChildren = TRUE,
                             !.outNodes[parentNode].children = pushNode(@, node) ]

\* variants: only direct matches are added; every fiber is added
shouldAdd_onlyTrue(isTrue, hasParentIsTrue) == isTrue

shouldAdd_always(isTrue, hasParentIsTrue) == TRUE

\* whether the walk callback adds the fiber it is called with
shouldAdd(isTrue, hasParentIsTrue) == isTrue \/ hasParentIsTrue

\* a variant that records a true fiber only after it has added it
searchCallback_recordAfter(F, P, tr, fiber, r) ==
    LET isTrue == F[fiber].data \in P
        hasParentIsTrue == parentIsTrue(F, r.trueFibers, fiber)
        r1 == IF shouldAdd(isTrue, hasParentIsTrue) THEN addFiberToTree(F, tr, fiber, r) ELSE r
    IN IF isTrue THEN [ r1 EXCEPT !.trueFibers = @ \cup {fiber} ] ELSE r1

\* the callback useSearchTree hands to walkThroughFiber
searchCallback(F, P, tr, fiber, r) ==
    LET isTrue == F[fiber].data \in P
        r1 == IF isTrue THEN [ r EXCEPT !.trueFibers = @ \cup {fiber} ] ELSE r
        hasParentIsTrue == parentIsTrue(F, r1.trueFibers, fiber)
    IN IF shouldAdd(isTrue, hasParentIsTrue) THEN addFiberToTree(F, tr, fiber, r1) ELSE r1

emptyResult ==
    [ searchTree |-> <<>>, outNodes |-> <<>>, addedFiberMap |-> <<>>,
      trueFibers |-> {}, transformCalls |-> <<>> ]

\* ------------------------------------------------------------------- state
VARIABLES
    tree,        \* the TreeNode<T>[] the caller owns
    fibers,      \* heap of TreeFiber objects built by treeToFiber
    first,       \* the fiber treeToFiber returned (0: none)
    op,          \* the exported function that was called last
    pc,          \* "start", "built", "walking", "done", "threw"
    err,         \* "none", "EmptyTree", "NotRoot"
    start,       \* the fiber handed to walkThroughFiber (0: none)
    cur,         \* `fiber` of the while loop of walkThroughFiber
    visited,     \* the fibers the callback was called with, in call order
    callback,    \* the payloads the predicate of the search returns true on
    transform,   \* whether a transform was passed to useSearchTree
    result,      \* searchTree, addedFiberMap, trueFibers (and the node heap)
    hook         \* what React keeps for one mounted hook (state cells, refs,
                 \* memo cells) and the hook's surroundings; see the hooks below

\* the variables of the tree / fiber functions
fiberVars == << tree, fibers, first, op, pc, err, start, cur, visited,
                callback, transform, result >>

vars == << fiberVars, hook >>

\* no hook is mounted
noHook == [ kind |-> "none" ]

Init ==
    /\ tree \in Forests
    /\ fibers = <<>>
    /\ first = 0
    /\ op = "none"
    /\ pc = "start"
    /\ err = "none"
    /\ start = 0
    /\ cur = 0
    /\ visited = <<>>
    /\ callback = {}
    /\ transform = FALSE
    /\ result = emptyResult
    /\ hook = noHook

\* a variant that turns the items into fibers in place and so takes the
\* children arrays away from the caller's nodes
CallTreeToFiber_inPlace ==
    /\ pc = "start"
    /\ LET t == treeToFiber(tree) IN
         /\ fibers' = t.fibers
         /\ first' = t.first
         /\ err' = t.err
         /\ pc' = IF t.err = "none" THEN "built" ELSE "threw"
    /\ op' = "treeToFiber"
    /\ tree' = [ tree EXCEPT !.children = [ n \in DOMAIN @ |-> <<>> ],
                             !.hasChildren = [ n \in DOMAIN @ |-> FALSE ] ]
    /\ UNCHANGED << start, cur, visited, callback, transform, result, hook >>

\* treeToFiber(tree) called by the user
CallTreeToFiber ==
    /\ pc = "start"
    /\ LET t == treeToFiber(tree) IN
         /\ fibers' = t.fibers
         /\ first' = t.first
         /\ err' = t.err
         /\ pc' = IF t.err = "none" THEN "built" ELSE "threw"
    /\ op' = "treeToFiber"
    /\ UNCHANGED << tree, start, cur, visited, callback, transform, result, hook >>

\* entry of walkThroughFiber(fiber, cb): the parent check, then the loop
EnterWalk(F, fiber) ==
    /\ start' = fiber
    /\ visited' = <<>>
    /\ IF walkThrows(F, fiber)
         THEN err' = "NotRoot" /\ pc' = "threw" /\ cur' = 0
         ELSE err' = "none" /\ pc' = "walking" /\ cur' = fiber

\* walkThroughFiber(fiber, cb) called by the user on a fiber of a structure
\* treeToFiber built; cb only records what it is called with
CallWalkThroughFiber ==
    /\ pc = "built"
    /\ \E fiber \in 1..Len(fibers) : EnterWalk(fibers, fiber)
    /\ op' = "walkThroughFiber"
    /\ UNCHANGED << tree, fibers, first, callback, transform, result, hook >>

\* useSearchTree(tree, callback, transform?) with an array: treeToFiber runs
\* in the first useMemo, the search in the second
CallUseSearchTreeArray ==
    /\ pc = "start"
    /\ op' = "useSearchTree"
    /\ \E P \in SUBSET (1..MaxNodes), tr \in BOOLEAN :
         /\ callback' = P
         /\ transform' = tr
    /\ LET t == treeToFiber(tree) IN
         /\ fibers' = t.fibers
         /\ first' = t.first
         /\ IF t.err # "none"
              THEN /\ err' = t.err
                   /\ pc' = "threw"
                   /\ UNCHANGED << start, cur, visited >>
              ELSE EnterWalk(t.fibers, t.first)
    /\ result' = emptyResult
    /\ UNCHANGED << tree, hook >>

\* useSearchTree(fiber, callback, transform?) with a fiber built beforehand
CallUseSearchTreeFiber ==
    /\ pc = "built"
    /\ op' = "useSearchTree"
    /\ \E P \in SUBSET (1..MaxNodes), tr \in BOOLEAN :
         /\ callback' = P
         /\ transform' = tr
    /\ \E fiber \in 1..Len(fibers) : EnterWalk(fibers, fiber)
    /\ result' = emptyResult
    /\ UNCHANGED << tree, fibers, first, hook >>

\* one iteration of the while loop of walkThroughFiber
WalkLoop ==
    /\ pc = "walking"
    /\ cur # 0
    /\ visited' = Append(visited, cur)
    /\ result' = IF op = "useSearchTree"
                   THEN searchCallback(fibers, callback, transform, cur, result)
                   ELSE result
    /\ cur' = getNextFiber(fibers, cur)
    /\ pc' = IF cur' = 0 THEN "done" ELSE "walking"
    /\ UNCHANGED << tree, fibers, first, op, err, start, callback, transform, hook >>

Next ==
    \/ CallTreeToFiber
    \/ CallWalkThroughFiber
    \/ CallUseSearchTreeArray
    \/ CallUseSearchTreeFiber
    \/ WalkLoop

Spec == Init /\ [][Next]_vars

\* the while loop of walkThroughFiber is synchronous code: once entered it
\* keeps iterating until its condition fails
FairSpec == Spec /\ WF_vars(WalkLoop)

\* ------------------------------------------------- the forest, read directly
\* the nodes of the forest T
nodeSet(T) == DOMAIN T.children

seqRange(s) == { s[i] : i \in 1..Len(s) }

\* the node whose children array holds n (0 for a top-level node)
nodeParent(T, n) ==
    IF \E m \in nodeSet(T) : n \in seqRange(T.children[m])
      THEN CHOOSE m \in nodeSet(T) : n \in seqRange(T.children[m])
      ELSE 0

\* the proper ancestors of node n
RECURSIVE nodeAncestors(_, _)
nodeAncestors(T, n) ==
    LET m == nodeParent(T, n)
    IN IF m = 0 THEN {} ELSE {m} \cup nodeAncestors(T, m)

\* the proper descendants of node n
nodeDescendants(T, n) == { m \in nodeSet(T) : n \in nodeAncestors(T, m) }

\* the array node n sits in: its parent's children, or the top-level array
siblingArray(T, n) ==
    IF nodeParent(T, n) = 0 THEN T.roots ELSE T.children[nodeParent(T, n)]

\* depth-first pre-order of the nodes of the arrays `items`
RECURSIVE preOrder(_, _)
preOrder(T, items) ==
    IF items = <<>> THEN <<>>
    ELSE <<Head(items)>> \o preOrder(T, T.children[Head(items)])
                         \o preOrder(T, Tail(items))

\* the payloads of the fibers the callback was called with, in call order
visitedData == [ i \in 1..Len(visited) |-> fibers[visited[i]].data ]

isPrefix(s, t) == Len(s) <= Len(t) /\ \A i \in 1..Len(s) : s[i] = t[i]

\* ---------------------------------------------------------------------- C1
\* C1: walking the fiber treeToFiber returned calls the callback once per
\* node of the forest and for nothing else, in depth-first pre-order: while
\* the walk runs the calls made so far are a prefix of the pre-order, and
\* when it has ended they are the whole pre-order, no fiber twice.
C1_WalkIsPreOrder ==
    (pc \in {"walking", "done"} /\ start = first) =>
        /\ isPrefix(visitedData, preOrder(tree, tree.roots))
        /\ \A i, j \in 1..Len(visited) : visited[i] = visited[j] => i = j
        /\ pc = "done" => visitedData = preOrder(tree, tree.roots)

\* a finished walk over a forest with several top-level nodes, a nested
\* node, and a node whose children array is empty
C1_Witness ==
    /\ op = "walkThroughFiber" /\ pc = "done" /\ start = first
    /\ Len(tree.roots) >= 2
    /\ Len(visited) >= 4
    /\ \E n \in nodeSet(tree) : nodeParent(tree, n) # 0
    /\ \E n \in nodeSet(tree) : tree.hasChildren[n] /\ tree.children[n] = <<>>

\* ---------------------------------------------------------------------- C9
\* C9: treeToFiber on the empty array throws and yields no fiber; on a
\* non-empty array it does not throw and returns the fiber of the first
\* top-level node.
C9_TreeToFiberResult ==
    op = "treeToFiber" =>
        IF tree.roots = <<>>
          THEN pc = "threw" /\ err = "EmptyTree" /\ first = 0 /\ fibers = <<>>
          ELSE /\ pc # "threw" /\ err = "none"
               /\ first \in 1..Len(fibers)
               /\ fibers[first].data = Head(tree.roots)
               /\ fibers[first].parent = 0

C9_Witness ==
    op = "treeToFiber" /\ pc = "threw" /\ err = "EmptyTree" /\ tree.roots = <<>>

\* --------------------------------------------------------------------- C10
\* C10: walkThroughFiber on a fiber whose parent is set throws before the
\* callback is called even once; on a fiber whose parent is null it never
\* throws.
C10_WalkRootCheck ==
    start # 0 =>
        IF fibers[start].parent # 0
          THEN pc = "threw" /\ err = "NotRoot" /\ visited = <<>>
          ELSE pc \in {"walking", "done"} /\ err = "none"

C10_Witness ==
    /\ op = "walkThroughFiber" /\ pc = "threw" /\ err = "NotRoot"
    /\ fibers[start].parent # 0 /\ visited = <<>>

\* ----------------------------------------- reading the result of a search
\* a call of useSearchTree has returned its result
searchDone == op = "useSearchTree" /\ pc = "done"

\* the nodes whose fibers the search walked
walkedNodes == { fibers[f].data : f \in seqRange(visited) }

\* the fiber made for node n
fiberOf(n) == CHOOSE f \in 1..Len(fibers) : fibers[f].data = n

\* node n has a proper ancestor / a proper descendant the predicate is true on
hasTrueAncestor(n) == nodeAncestors(tree, n) \cap callback # {}
hasTrueDescendant(n) == nodeDescendants(tree, n) \cap callback # {}

\* the nodes whose fibers are keys of addedFiberMap
addedNodes == { fibers[f].data : f \in DOMAIN result.addedFiberMap }

\* the output nodes reachable from the array arr through children arrays
RECURSIVE reachable(_, _)
reachable(r, arr) ==
    UNION { {arr[i]} \cup reachable(r, r.outNodes[arr[i]].children) : i \in 1..Len(arr) }

\* the payloads found in the reconstructed tree
treeData == { result.outNodes[k].data : k \in reachable(result, result.searchTree) }

\* the reconstructed tree below the array arr, as nested values
RECURSIVE outShape(_, _)
outShape(r, arr) ==
    [ i \in 1..Len(arr) |->
        [ data |-> r.outNodes[arr[i]].data,
          children |-> outShape(r, r.outNodes[arr[i]].children) ] ]

\* the input forest below the array items, as nested values
RECURSIVE treeShape(_, _)
treeShape(T, items) ==
    [ i \in 1..Len(items) |->
        [ data |-> items[i], children |-> treeShape(T, T.children[items[i]]) ] ]

indexIn(arr, x) == CHOOSE i \in 1..Len(arr) : arr[i] = x

\* ---------------------------------------------------------------------- C2
\* C2 as stated: a node is in the reconstructed tree if and only if the
\* predicate is true on it or on one of its ancestors (never because of a
\* descendant).
C2_AncestorOnlyInclusion ==
    searchDone =>
        \A n \in walkedNodes :
            n \in treeData <=> (n \in callback \/ hasTrueAncestor(n))

\* C2 amended: a node is in the reconstructed tree if and only if the
\* predicate is true on it, on one of its ancestors, or on one of its
\* descendants; nothing else is in the tree.
C2_InclusionRule ==
    searchDone =>
        /\ treeData \subseteq walkedNodes
        /\ \A n \in walkedNodes :
               n \in treeData <=>
                   (n \in callback \/ hasTrueAncestor(n) \/ hasTrueDescendant(n))

\* one node is in the tree only because of a descendant, one only because of
\* an ancestor, and one node is left out
C2_Witness ==
    /\ searchDone
    /\ \E n \in treeData : n \notin callback /\ ~hasTrueAncestor(n)
    /\ \E n \in treeData : n \notin callback /\ hasTrueAncestor(n)
    /\ walkedNodes \ treeData # {}

\* ---------------------------------------------------------------------- C3
exampleTree == TreeNode(4, <<0, 1, 1, 3>>, FALSE, {})

exampleResult ==
    << [ data |-> 1, children |->
         << [ data |-> 3, children |->
              << [ data |-> 4, children |-> <<>> ] >> ] >> ] >>

\* C3: the keys of addedFiberMap are exactly the fibers of the nodes the
\* predicate is true on, of their descendants and of their ancestors; and on
\* 1 -> [2, 3 -> [4]] with the predicate id = 3 the tree is 1 -> [3 -> [4]].
C3_AddedFibers ==
    searchDone =>
        /\ addedNodes =
             { n \in walkedNodes :
                 n \in callback \/ hasTrueAncestor(n) \/ hasTrueDescendant(n) }
        /\ Cardinality(DOMAIN result.addedFiberMap) = Cardinality(addedNodes)
        /\ (tree = exampleTree /\ callback = {3}) =>
               outShape(result, result.searchTree) = exampleResult

C3_Witness ==
    /\ searchDone /\ tree = exampleTree /\ callback = {3}
    /\ addedNodes = {1, 3, 4}
    /\ outShape(result, result.searchTree) = exampleResult

\* ---------------------------------------------------------------------- C4
\* the transform calls made for the fiber of node n
callsFor(n) ==
    { i \in 1..Len(result.transformCalls) :
        fibers[result.transformCalls[i].fiber].data = n }

\* C4: when the predicate is true on X and Y is a descendant of X, Y is in
\* the reconstructed tree whether or not the predicate is true on Y, and the
\* transform call made for Y gets hasParentIsTrue = true.
C4_AncestorInclusion ==
    searchDone =>
        \A x \in walkedNodes \cap callback : \A y \in nodeDescendants(tree, x) :
            /\ y \in addedNodes
            /\ y \in treeData
            /\ transform =>
                 /\ callsFor(y) # {}
                 /\ \A i \in callsFor(y) : result.transformCalls[i].hasParentIsTrue
                 /\ result.outNodes[result.addedFiberMap[fiberOf(y)]].hasParentIsTrue

\* Y is a grandchild of X and the predicate is false on Y and on Y's parent
C4_Witness ==
    /\ searchDone /\ transform
    /\ \E x \in walkedNodes \cap callback : \E y \in nodeDescendants(tree, x) :
          /\ y \notin callback
          /\ nodeParent(tree, y) # x
          /\ nodeParent(tree, y) \notin callback
          /\ callsFor(y) # {}

\* ---------------------------------------------------------------------- C5
\* the siblings of node n that the search walked
walkedSiblings(n) == (seqRange(siblingArray(tree, n)) \cap walkedNodes) \ {n}

subtree(n) == {n} \cup nodeDescendants(tree, n)

\* C5 as stated: when the predicate is true on X, a sibling subtree of X
\* that holds no node the predicate is true on is absent from the tree.
C5_SiblingExclusionAlways ==
    searchDone =>
        \A x \in walkedNodes \cap callback : \A s \in walkedSiblings(x) :
            subtree(s) \cap callback = {} => subtree(s) \cap addedNodes = {}

\* C5 amended: when the predicate is true on X and on no ancestor of X, a
\* sibling subtree of X that holds no node the predicate is true on is
\* absent from the tree.
C5_SiblingExclusion ==
    searchDone =>
        \A x \in walkedNodes \cap callback : \A s \in walkedSiblings(x) :
            (subtree(s) \cap callback = {} /\ ~hasTrueAncestor(x)) =>
                (subtree(s) \cap addedNodes = {} /\ subtree(s) \cap treeData = {})

\* the sibling subtree has more than one node, and X is not top-level
C5_Witness ==
    /\ searchDone
    /\ \E x \in walkedNodes \cap callback : \E s \in walkedSiblings(x) :
          /\ subtree(s) \cap callback = {} /\ ~hasTrueAncestor(x)
          /\ nodeDescendants(tree, s) # {}
          /\ subtree(s) \cap addedNodes = {}
    /\ \E x \in walkedNodes \cap callback : \E s \in walkedSiblings(x) :
          /\ subtree(s) \cap callback = {} /\ ~hasTrueAncestor(x)
          /\ nodeParent(tree, x) # 0

\* ---------------------------------------------------------------------- C6
\* a call of useSearchTree on the forest itself (an array, or the fiber
\* treeToFiber returned for it) has ended, by returning or by throwing
searchOfForestEnded ==
    /\ op = "useSearchTree" /\ pc \in {"done", "threw"}
    /\ start = first

\* C6: for every forest and every predicate that is false on every node,
\* useSearchTree returns an empty searchTree, an empty trueFibers and an
\* empty addedFiberMap.
C6_NothingMatches ==
    (searchOfForestEnded /\ nodeSet(tree) \cap callback = {}) =>
        /\ pc = "done"
        /\ result.searchTree = <<>>
        /\ result.trueFibers = {}
        /\ DOMAIN result.addedFiberMap = {}

\* ---------------------------------------------------------------------- C7
\* C7: for every forest and every predicate that is true on every node,
\* useSearchTree without a transform returns a searchTree with the nodes,
\* payloads, nesting and sibling order of the forest.
C7_EverythingMatches ==
    (searchOfForestEnded /\ ~transform /\ nodeSet(tree) \subseteq callback) =>
        /\ pc = "done"
        /\ outShape(result, result.searchTree) = treeShape(tree, tree.roots)

\* ---------------------------------------------------------------------- C8
\* the array of the reconstructed tree that holds the output node of node n
outArrayOf(n) ==
    IF nodeParent(tree, n) = 0
      THEN result.searchTree
      ELSE result.outNodes[result.addedFiberMap[fiberOf(nodeParent(tree, n))]].children

outNodeOf(n) == result.addedFiberMap[fiberOf(n)]

\* C8: when A and B are in the reconstructed tree and are siblings in the
\* input with A before B, the output node of A comes before the output node
\* of B in the same array (a children array or searchTree).
C8_SiblingOrder ==
    searchDone =>
        \A a \in addedNodes : \A b \in (seqRange(siblingArray(tree, a)) \cap addedNodes) \ {a} :
            indexIn(siblingArray(tree, a), a) < indexIn(siblingArray(tree, a), b) =>
                /\ outArrayOf(a) = outArrayOf(b)
                /\ \E i, j \in 1..Len(outArrayOf(a)) :
                      /\ outArrayOf(a)[i] = outNodeOf(a)
                      /\ outArrayOf(a)[j] = outNodeOf(b)
                      /\ i < j
                /\ \A i, j \in 1..Len(outArrayOf(a)) :
                      (outArrayOf(a)[i] = outNodeOf(a) /\ outArrayOf(a)[j] = outNodeOf(b))
                          => i < j

\* A is in the tree only because of a descendant, B is a later sibling
C8_Witness ==
    /\ searchDone
    /\ \E a \in addedNodes : \E b \in (seqRange(siblingArray(tree, a)) \cap addedNodes) \ {a} :
          /\ indexIn(siblingArray(tree, a), a) < indexIn(siblingArray(tree, a), b)
          /\ a \notin callback /\ ~hasTrueAncestor(a)
          /\ a > b

\* --------------------------------------------------------------------- C11
\* C11: useSearchTree fails only when it is given a fiber that is not a
\* root; on every array, the empty one included, it returns a result.
C11_SearchFailsOnlyOnNonRoot ==
    (op = "useSearchTree" /\ pc = "threw") => err = "NotRoot"

\* --------------------------------------------------------------------- C12
\* the element after x in the array arr (0 when x is the last one)
nextIn(arr, x) ==
    IF indexIn(arr, x) = Len(arr) THEN 0 ELSE arr[indexIn(arr, x) + 1]

\* the fiber of node n, null for no node
fiberOrNull(n) == IF n = 0 THEN 0 ELSE fiberOf(n)

\* C12: the fibers treeToFiber builds are the forest in first-child /
\* next-sibling form: one fiber per node; child is the fiber of the first
\* child (null without children), sibling the fiber of the next node of the
\* same array (null for the last), parent the fiber of the parent node
\* (null for top-level nodes); the returned fiber is that of the first
\* top-level node.
C12_FirstChildNextSibling ==
    fibers # <<>> =>
        /\ Len(fibers) = Cardinality(nodeSet(tree))
        /\ \A n \in nodeSet(tree) : \E f \in 1..Len(fibers) : fibers[f].data = n
        /\ first = fiberOf(Head(tree.roots))
        /\ \A n \in nodeSet(tree) :
              /\ fibers[fiberOf(n)].child =
                    IF tree.children[n] = <<>> THEN 0
                    ELSE fiberOf(Head(tree.children[n]))
              /\ fibers[fiberOf(n)].sibling = fiberOrNull(nextIn(siblingArray(tree, n), n))
              /\ fibers[fiberOf(n)].parent = fiberOrNull(nodeParent(tree, n))

\* a structure with two top-level nodes, a node with two children and a
\* node with an empty children array
C12_Witness ==
    /\ op = "treeToFiber" /\ pc = "built"
    /\ Len(tree.roots) >= 2
    /\ \E n \in nodeSet(tree) : Len(tree.children[n]) >= 2
    /\ \E n \in nodeSet(tree) : tree.hasChildren[n] /\ tree.children[n] = <<>>

\* --------------------------------------------------------------------- C13
\* the fibers reached from fiber f by following sibling links, f included
RECURSIVE siblingChain(_, _)
siblingChain(F, f) ==
    IF f = 0 THEN {} ELSE {f} \cup siblingChain(F, F[f].sibling)

\* the fibers that have f among their children (child, then sibling links)
parentsOf(F, f) ==
    { p \in 1..Len(F) : f \in siblingChain(F, F[p].child) }

\* C13 as stated: every fiber but the returned one has a parent, the
\* returned one has none.
C13_OnlyRootHasNoParent ==
    fibers # <<>> =>
        /\ fibers[first].parent = 0
        /\ \A f \in 1..Len(fibers) :
              f # first => (fibers[f].parent # 0 /\ parentsOf(fibers, f) = {fibers[f].parent})

\* C13 amended: every fiber of a node that is not top-level has exactly one
\* parent; the fibers of the top-level nodes, the returned one among them,
\* have none.
C13_TopLevelHasNoParent ==
    fibers # <<>> =>
        /\ fibers[first].parent = 0
        /\ \A f \in 1..Len(fibers) :
              IF fibers[f].data \in seqRange(tree.roots)
                THEN fibers[f].parent = 0 /\ parentsOf(fibers, f) = {}
                ELSE fibers[f].parent # 0 /\ parentsOf(fibers, f) = {fibers[f].parent}

\* several top-level nodes, and a fiber two levels down
C13_Witness ==
    /\ fibers # <<>>
    /\ Len(tree.roots) >= 2
    /\ \E f \in 1..Len(fibers) :
          fibers[f].parent # 0 /\ fibers[fibers[f].parent].parent # 0

\* --------------------------------------------------------------------- C16
\* the loop of walkThroughFiber is at a fiber it has not been at before, and
\* every parent link leads to a fiber made earlier
walkProgress ==
    /\ \A f \in 1..Len(fibers) : fibers[f].parent < f
    /\ \A i, j \in 1..Len(visited) : visited[i] = visited[j] => i = j
    /\ pc = "walking" => (cur # 0 /\ cur \notin seqRange(visited))
    /\ pc = "done" => cur = 0

\* C16: on a structure treeToFiber built, walkThroughFiber terminates: the
\* getNextFiber steps from the root reach null, the upward walk through the
\* parent links ends, and no fiber is reached twice.
C16_WalkTerminates ==
    /\ []walkProgress
    /\ (pc = "walking") ~> (pc = "done")

\* a walk that ended after climbing two levels at once
C16_Witness ==
    /\ pc = "done" /\ Len(visited) >= 3
    /\ \E i \in 1..(Len(visited) - 1) :
          LET f == visited[i] IN
            /\ fibers[f].child = 0 /\ fibers[f].sibling = 0
            /\ fibers[f].parent # 0
            /\ fibers[fibers[f].parent].sibling = 0
            /\ fibers[fibers[f].parent].parent # 0

\* --------------------------------------------------------------------- C15
\* C15: treeToFiber leaves every node of the forest as it was, the search
\* leaves every fiber as it was, and an output node, once made, changes only
\* by getting children.
C15_InputsUnchanged ==
    [][ /\ tree' = tree
        /\ fibers # <<>> => fibers' = fibers
        /\ pc = "walking" =>
             \A k \in 1..Len(result.outNodes) :
                 /\ k \in 1..Len(result'.outNodes)
                 /\ result'.outNodes[k].data = result.outNodes[k].data
                 /\ result'.outNodes[k].isTrue = result.outNodes[k].isTrue
                 /\ result'.outNodes[k].hasParentIsTrue = result.outNodes[k].hasParentIsTrue
      ]_vars

\* a search has ended that gave children to output nodes, on a forest whose
\* nodes have children
C15_Witness ==
    /\ searchDone
    /\ \E n \in nodeSet(tree) : tree.children[n] # <<>>
    /\ \E k \in 1..Len(result.outNodes) : result.outNodes[k].hasChildren

\* --------------------------------------------------------------------- C20
\* the places where output node k occurs: <<0, i>> for searchTree[i],
\* <<m, i>> for the i-th child of output node m
placesOf(r, k) ==
    { <<0, i>> : i \in { j \in 1..Len(r.searchTree) : r.searchTree[j] = k } }
    \cup UNION { { <<m, i>> : i \in { j \in 1..Len(r.outNodes[m].children) :
                                          r.outNodes[m].children[j] = k } }
                 : m \in 1..Len(r.outNodes) }

\* C20: during one search every fiber is materialized at most once: the
\* output nodes made are as many as the keys of addedFiberMap, each key has
\* its own node, the node occurs exactly once in the reconstructed tree, and
\* it sits in the children of its parent's node, or in searchTree when the
\* fiber has no parent.
C20_MaterializedOnce ==
    (op = "useSearchTree" /\ pc \in {"walking", "done"}) =>
        /\ Len(result.outNodes) = Cardinality(DOMAIN result.addedFiberMap)
        /\ \A f, g \in DOMAIN result.addedFiberMap :
              result.addedFiberMap[f] = result.addedFiberMap[g] => f = g
        /\ \A f \in DOMAIN result.addedFiberMap :
              /\ Cardinality(placesOf(result, result.addedFiberMap[f])) = 1
              /\ IF fibers[f].parent = 0
                   THEN result.addedFiberMap[f] \in seqRange(result.searchTree)
                   ELSE /\ fibers[f].parent \in DOMAIN result.addedFiberMap
                        /\ result.addedFiberMap[f] \in
                             seqRange(result.outNodes[result.addedFiberMap[fibers[f].parent]].children)

\* a node the predicate is false on, with no true ancestor, was materialized
\* for one true descendant and found again for another
C20_Witness ==
    /\ searchDone
    /\ \E a \in addedNodes :
          /\ a \notin callback /\ ~hasTrueAncestor(a)
          /\ Cardinality(nodeDescendants(tree, a) \cap callback) >= 2
          /\ Len(result.outNodes[outNodeOf(a)].children) >= 2

(***************************************************************************)
(* The hooks.  React calls a hook once per render of its component and     *)
(* keeps the hook's cells (useState, useRef, useMemo) between renders; one *)
(* action below is one whole render, or one call the component makes       *)
(* between renders.  While a hook is studied the tree / fiber functions    *)
(* above are not called.                                                   *)
(***************************************************************************)
MaxRenders == 3
MaxQueue == 2

fiberIdle ==
    /\ tree = TreeNode(0, <<>>, FALSE, {})
    /\ fibers = <<>> /\ first = 0 /\ op = "none" /\ pc = "start"
    /\ err = "none" /\ start = 0 /\ cur = 0 /\ visited = <<>>
    /\ callback = {} /\ transform = FALSE /\ result = emptyResult

\* useMemo / useEffect: the dependency arrays differ (Object.is per element)
depsChanged(prev, next) ==
    \/ Len(prev) # Len(next)
    \/ \E i \in 1..Len(prev) : prev[i] # next[i]

\* ----------------------------------------------- useSearchTree, over renders
\* the arrays, callbacks and transforms a component may pass; the position
\* in the sequence is the identity of the object, so RenderTrees[1] and
\* RenderTrees[3] are two arrays with equal content
RenderTrees ==
    << TreeNode(2, <<0, 1>>, FALSE, {}),
       TreeNode(2, <<0, 0>>, FALSE, {}),
       TreeNode(2, <<0, 1>>, FALSE, {}) >>

RenderCallbacks == << {1}, {2}, {1} >>

\* 0: no transform passed; 1, 2: two transform functions
RenderTransforms == 0..2

\* walkThroughFiber(fiber, cb) with the callback of the search, run to its end
RECURSIVE walkAll(_, _, _, _, _)
walkAll(F, fiber, P, tr, r) ==
    IF fiber = 0 THEN r
    ELSE walkAll(F, getNextFiber(F, fiber), P, tr, searchCallback(F, P, tr, fiber, r))

\* the body of the second useMemo, on the fiber made from the array T
searchResult(T, P, tr) ==
    LET t == treeToFiber(T)
    IN walkAll(t.fibers, t.first, P, tr, emptyResult)

\* a variant of the dependency array of the first useMemo: [treeOrFiber]
fiberMemoDeps_treeOrFiber(treeOrFiber) == << treeOrFiber >>

\* the dependency array of the first useMemo: [treeToFiber], the function
fiberMemoDeps(treeOrFiber) == << 0 >>

\* the dependency array of the second useMemo: [fiber, callback, transform]
resultMemoDeps(fiber, cb, tf) == << fiber, cb, tf >>

SearchHookInit ==
    /\ fiberIdle
    /\ hook = [ kind |-> "useSearchTree", renders |-> 0,
                treeOrFiber |-> 0, cb |-> 0, tf |-> 0,
                prevArgs |-> << 0, 0, 0 >>,
                fiberDeps |-> <<>>, fiberMadeIn |-> 0, fiberTree |-> 0,
                resultDeps |-> <<>>, resultMadeIn |-> 0,
                searchTree |-> <<>> ]

\* one render of a component that calls useSearchTree(treeOrFiber, cb, tf).
\* A fiber and a result are identified by the render that made them;
\* fiberTree is the array the kept fiber was made from.
SearchHookRender ==
    /\ hook.kind = "useSearchTree"
    /\ hook.renders < MaxRenders
    /\ \E t \in 1..Len(RenderTrees), c \in 1..Len(RenderCallbacks), x \in RenderTransforms :
         LET n == hook.renders + 1
             newFiber == hook.renders = 0 \/ depsChanged(hook.fiberDeps, fiberMemoDeps(t))
             fiber == IF newFiber THEN n ELSE hook.fiberMadeIn
             fiberOfTree == IF newFiber THEN t ELSE hook.fiberTree
             newResult == hook.renders = 0
                            \/ depsChanged(hook.resultDeps, resultMemoDeps(fiber, c, x))
             r == searchResult(RenderTrees[fiberOfTree], RenderCallbacks[c], x # 0)
         IN hook' = [ hook EXCEPT
                        !.renders = n,
                        !.treeOrFiber = t, !.cb = c, !.tf = x,
                        !.prevArgs = << hook.treeOrFiber, hook.cb, hook.tf >>,
                        !.fiberDeps = IF newFiber THEN fiberMemoDeps(t) ELSE @,
                        !.fiberMadeIn = fiber,
                        !.fiberTree = fiberOfTree,
                        !.resultDeps = IF newResult THEN resultMemoDeps(fiber, c, x) ELSE @,
                        !.resultMadeIn = IF newResult THEN n ELSE @,
                        !.searchTree = IF newResult THEN outShape(r, r.searchTree) ELSE @ ]
    /\ UNCHANGED fiberVars

SearchHookNext == SearchHookRender

SearchHookSpec == SearchHookInit /\ [][SearchHookNext]_vars

\* --------------------------------------------------------------------- C14
\* the searchTree a search of the array passed in the last render gives
searchTreeOfLastRender ==
    LET r == searchResult(RenderTrees[hook.treeOrFiber], RenderCallbacks[hook.cb], hook.tf # 0)
    IN outShape(r, r.searchTree)

\* C14: over any sequence of renders the result is recomputed when the tree
\* reference, the predicate or the transform differs from the previous
\* render, so that the result of a render is that of the tree passed in that
\* render; when none of the three changed the result object of the previous
\* render is returned.
C14_ResultFollowsArguments ==
    (hook.kind = "useSearchTree" /\ hook.renders >= 1) =>
        /\ hook.searchTree = searchTreeOfLastRender
        /\ hook.renders >= 2 =>
             ((hook.resultMadeIn = hook.renders)
                 <=> (<< hook.treeOrFiber, hook.cb, hook.tf >> # hook.prevArgs))

\* ------------------------------------------------------------ useStorageState
\* null, and what storage.getItem gives for a key that is not there
Null == "<null>"

\* the values a state or a stored item can have: two strings, or null
Data == { "a", "b", Null }

\* parser and serializer as the config may give them; `given` is false for
\* a config without the function
ParserConfigs ==
    { [ given |-> FALSE, fn |-> [ d \in Data |-> d ] ] }
    \cup { [ given |-> TRUE, fn |-> f ] :
             f \in { [ d \in Data |-> d ],
                     [ d \in Data |-> IF d = Null THEN "a" ELSE d ],
                     [ d \in Data |-> IF d = "a" THEN "b" ELSE IF d = "b" THEN "a" ELSE d ] } }

SerializerConfigs ==
    { [ given |-> FALSE, fn |-> [ d \in Data |-> d ] ] }
    \cup { [ given |-> TRUE, fn |-> f ] : f \in [ Data -> Data ] }

\* what setState can be called with: a value, or an updater function; both
\* as the function React applies to the state
SetStateActions ==
    { [ d \in Data |-> v ] : v \in Data }
    \cup { [ d \in Data |-> IF d = "a" THEN "b" ELSE "a" ] }

\* the state after React has applied the queued setState calls, in order
RECURSIVE applyQueue(_, _)
applyQueue(state, queue) ==
    IF queue = <<>> THEN state
    ELSE applyQueue(Head(queue)[state], Tail(queue))

\* parser ? parser(value) : value
parsed(parser, value) == IF parser.given THEN parser.fn[value] ELSE value

\* serializer ? serializer(state) : state
serialized(serializer, state) == IF serializer.given THEN serializer.fn[state] ELSE state

\* a variant that leaves the item in place when the value is null
storageWrite_noRemove(item, value) == IF value = Null THEN item ELSE value

\* the item under key after the body of the useMemo: removeItem for null,
\* setItem otherwise
storageWrite(item, value) == IF value = Null THEN Null ELSE value

StorageHookInit ==
    /\ fiberIdle
    /\ \E p \in ParserConfigs, z \in SerializerConfigs, item \in Data :
         hook = [ kind |-> "useStorageState", mounted |-> FALSE,
                  parser |-> p, serializer |-> z,
                  item |-> item, state |-> Null, memoDeps |-> <<>>,
                  queue |-> <<>>, applied |-> 0 ]

\* one render of a component that calls useStorageState(config): useState
\* gives the state (the initializer in the first render, the queued updates
\* later), useMemo runs its body when [state] changed
StorageHookRender ==
    /\ hook.kind = "useStorageState"
    /\ LET state == IF hook.mounted THEN applyQueue(hook.state, hook.queue)
                                    ELSE parsed(hook.parser, hook.item)
           runMemo == ~hook.mounted \/ depsChanged(hook.memoDeps, << state >>)
       IN hook' = [ hook EXCEPT
                      !.mounted = TRUE,
                      !.state = state,
                      !.queue = <<>>,
                      !.applied = Len(hook.queue),
                      !.memoDeps = IF runMemo THEN << state >> ELSE @,
                      !.item = IF runMemo
                                 THEN storageWrite(@, serialized(hook.serializer, state))
                                 ELSE @ ]
    /\ UNCHANGED fiberVars

\* the component calls setState(action)
StorageHookSetState ==
    /\ hook.kind = "useStorageState"
    /\ hook.mounted
    /\ Len(hook.queue) < MaxQueue
    /\ \E a \in SetStateActions : hook' = [ hook EXCEPT !.queue = Append(@, a) ]
    /\ UNCHANGED fiberVars

StorageHookNext ==
    \/ StorageHookRender
    \/ StorageHookSetState

StorageHookSpec == StorageHookInit /\ [][StorageHookNext]_vars

\* --------------------------------------------------------------------- C17
\* C17: from the first render on, storage holds under key the serialized
\* state of the last render (serializer(state), or state without a
\* serializer), and holds nothing under key when that value is null.
C17_StorageFollowsState ==
    (hook.kind = "useStorageState" /\ hook.mounted) =>
        hook.item = IF hook.serializer.given
                      THEN hook.serializer.fn[hook.state]
                      ELSE hook.state

\* a render applied two setState calls, and the new state serializes to null
C17_Witness ==
    /\ hook.kind = "useStorageState" /\ hook.mounted
    /\ hook.applied = 2
    /\ hook.serializer.given
    /\ hook.state # Null
    /\ hook.serializer.fn[hook.state] = Null
    /\ hook.item = Null
    /\ hook.parser.fn[Null] # hook.state

\* -------------------------------------------------------------- useInputState
\* the values of inputs, states and dependencies; undefined is none of them
Vals == { 1, 2 }

Undefined == 0

\* the arrays of at most two values
ValArrays == { <<>> } \cup { << v >> : v \in Vals } \cup { << v, w >> : v, w \in Vals }

\* b[index], undefined past the end
elementAt(b, index) == IF index \in 1..Len(b) THEN b[index] ELSE Undefined

\* a variant without the comparison of the lengths
compareArray_noLength(a, b) ==
    \A index \in 1..Len(a) : a[index] = elementAt(b, index)

\* compareArray(a, b): same length and Object.is on every element
compareArray(a, b) ==
    /\ Len(a) = Len(b)
    /\ \A index \in 1..Len(a) : a[index] = elementAt(b, index)

\* the deps argument: not given, or an array
DepsArgs ==
    { [ given |-> FALSE, arr |-> <<>> ] } \cup { [ given |-> TRUE, arr |-> a ] : a \in ValArrays }

\* deps ??= [input]
depsOrInput(depsArg, input) == IF depsArg.given THEN depsArg.arr ELSE << input >>

\* the state after the queued setState(value) calls
lastOr(state, queue) == IF queue = <<>> THEN state ELSE queue[Len(queue)]

\* one pass through the body of useInputState with prevInput.current = prev:
\* whether setState(input) is called, and prevInput.current afterwards
inputPass(prev, deps) ==
    IF ~compareArray(prev, deps)
      THEN [ setsState |-> TRUE, prevInput |-> deps ]
      ELSE [ setsState |-> FALSE, prevInput |-> prev ]

InputHookInit ==
    /\ fiberIdle
    /\ hook = [ kind |-> "useInputState", mounted |-> FALSE, rerendered |-> FALSE,
                state |-> Undefined, prevInput |-> <<>>, queue |-> <<>>,
                input |-> Undefined, deps |-> <<>>,
                prevDeps |-> <<>>, prevState |-> Undefined, applied |-> <<>>,
                passes |-> 0 ]

\* one render of a component that calls useInputState(input, deps).  A
\* setState during the render makes React run the component again at once,
\* with the same arguments, before anything is shown.
InputHookRender ==
    /\ hook.kind = "useInputState"
    /\ \E input \in Vals, depsArg \in DepsArgs :
         LET deps == depsOrInput(depsArg, input)
             s1 == IF hook.mounted THEN lastOr(hook.state, hook.queue) ELSE input
             p1 == inputPass(IF hook.mounted THEN hook.prevInput ELSE deps, deps)
             s2 == IF p1.setsState THEN input ELSE s1
             p2 == IF p1.setsState THEN inputPass(p1.prevInput, deps) ELSE p1
         IN /\ ~p2.setsState
            /\ hook' = [ hook EXCEPT
                           !.mounted = TRUE,
                           !.rerendered = hook.mounted,
                           !.state = s2,
                           !.prevInput = p2.prevInput,
                           !.queue = <<>>,
                           !.input = input,
                           !.deps = deps,
                           !.prevDeps = hook.deps,
                           !.prevState = hook.state,
                           !.applied = hook.queue,
                           !.passes = IF p1.setsState THEN 2 ELSE 1 ]
    /\ UNCHANGED fiberVars

\* the component calls setState(value)
InputHookSetState ==
    /\ hook.kind = "useInputState"
    /\ hook.mounted
    /\ Len(hook.queue) < MaxQueue
    /\ \E v \in Vals : hook' = [ hook EXCEPT !.queue = Append(@, v) ]
    /\ UNCHANGED fiberVars

InputHookNext ==
    \/ InputHookRender
    \/ InputHookSetState

InputHookSpec == InputHookInit /\ [][InputHookNext]_vars

\* --------------------------------------------------------------------- C18
\* the two dependency arrays differ: in length, or in some element
depsDiffer(a, b) ==
    \/ Len(a) # Len(b)
    \/ \E i \in 1..Len(a) : i \in 1..Len(b) /\ a[i] # b[i]

\* C18: the state of the first render is its input; in a later render the
\* state is the input of that render when the deps differ from those of the
\* render before, and otherwise the value last given to setState since then,
\* or the state of the render before, whatever the input is.
C18_InputStateResets ==
    (hook.kind = "useInputState" /\ hook.mounted) =>
        IF ~hook.rerendered THEN hook.state = hook.input
        ELSE IF depsDiffer(hook.prevDeps, hook.deps) THEN hook.state = hook.input
        ELSE hook.state = (IF hook.applied = <<>> THEN hook.prevState
                           ELSE hook.applied[Len(hook.applied)])

\* the deps grew by one element, setState had been called with another
\* value, and the state is the input
C18_Witness ==
    /\ hook.kind = "useInputState" /\ hook.rerendered
    /\ Len(hook.prevDeps) = 1 /\ Len(hook.deps) = 2
    /\ hook.prevDeps[1] = hook.deps[1]
    /\ hook.applied # <<>>
    /\ hook.applied[Len(hook.applied)] # hook.input
    /\ hook.state = hook.input

\* ------------------------------------------------------------- useArraySignal
\* the compareFn argument: not given, or a function on two elements (which
\* may be undefined when an index is past the end of the new array)
CompareFns ==
    { [ given |-> FALSE, fn |-> [ a, b \in Vals \cup {Undefined} |-> a = b ] ] }
    \cup { [ given |-> TRUE, fn |-> f ] :
             f \in { [ a, b \in Vals \cup {Undefined} |-> a = b ],
                     [ a, b \in Vals \cup {Undefined} |-> a <= b ],
                     [ a, b \in Vals \cup {Undefined} |-> FALSE ] } }

\* compareFn ? !compareFn(it, data[idx]) : it !== data[idx]
elementDiffers(cmp, it, other) ==
    IF cmp.given THEN ~cmp.fn[it, other] ELSE it # other

\* a variant without the comparison of the lengths
arrayDiffers_noLength(cmp, current, data) ==
    \E idx \in 1..Len(current) : elementDiffers(cmp, current[idx], elementAt(data, idx))

\* the second operand of the condition of useArraySignal: the lengths
\* differ, or some element of dataRef.current differs from data[idx]
arrayDiffers(cmp, current, data) ==
    \/ Len(current) # Len(data)
    \/ \E idx \in 1..Len(current) : elementDiffers(cmp, current[idx], elementAt(data, idx))

SignalHookInit ==
    /\ fiberIdle
    /\ \E a1, a2 \in ValArrays :
         hook = [ kind |-> "useArraySignal", renders |-> 0, fresh |-> FALSE,
                  arrays |-> << a1, a2 >>,
                  dataRef |-> 0, signal |-> 0, symbols |-> 0,
                  data |-> 0, cmp |-> CHOOSE c \in CompareFns : ~c.given,
                  prevDataRef |-> 0, prevSignal |-> 0, returned |-> {} ]

\* one render of a component that calls useArraySignal(data, compareFn);
\* data is one of the two arrays of the component, arrays[data] its
\* elements now; a symbol is the number of the Symbol() call that made it
SignalHookRender ==
    /\ hook.kind = "useArraySignal"
    /\ hook.renders < MaxRenders
    /\ \E data \in 1..2, cmp \in CompareFns :
         LET mount == hook.renders = 0
             \* useRef(Symbol("arraySignal")) makes a symbol in every render
             \* and keeps the one of the first
             made == hook.symbols + 1
             current == IF mount THEN data ELSE hook.dataRef
             changed == /\ data # current
                        /\ arrayDiffers(cmp, hook.arrays[current], hook.arrays[data])
         IN hook' = [ hook EXCEPT
                        !.renders = @ + 1,
                        !.fresh = TRUE,
                        !.symbols = IF changed THEN made + 1 ELSE made,
                        !.signal = IF changed THEN made + 1
                                   ELSE IF mount THEN made ELSE @,
                        !.dataRef = IF changed THEN data ELSE current,
                        !.data = data,
                        !.cmp = cmp,
                        !.prevDataRef = hook.dataRef,
                        !.prevSignal = hook.signal,
                        !.returned = IF mount THEN {} ELSE @ \cup {hook.signal} ]
    /\ UNCHANGED fiberVars

\* between renders the component changes one of its arrays in place
SignalHookMutate ==
    /\ hook.kind = "useArraySignal"
    /\ hook.renders \in 1..(MaxRenders - 1)
    /\ \E ref \in 1..2, a \in ValArrays :
         /\ a # hook.arrays[ref]
         /\ hook' = [ hook EXCEPT !.arrays[ref] = a, !.fresh = FALSE ]
    /\ UNCHANGED fiberVars

SignalHookNext ==
    \/ SignalHookRender
    \/ SignalHookMutate

SignalHookSpec == SignalHookInit /\ [][SignalHookNext]_vars

\* --------------------------------------------------------------------- C19
\* the array passed is the array recorded before the render, or has its
\* length and pairwise equal elements
sameAsRecorded ==
    \/ hook.data = hook.prevDataRef
    \/ /\ Len(hook.arrays[hook.data]) = Len(hook.arrays[hook.prevDataRef])
       /\ \A i \in 1..Len(hook.arrays[hook.data]) :
             IF hook.cmp.given
               THEN hook.cmp.fn[hook.arrays[hook.prevDataRef][i], hook.arrays[hook.data][i]]
               ELSE hook.arrays[hook.prevDataRef][i] = hook.arrays[hook.data][i]

\* C19: a render after the first returns the symbol of the render before
\* when the array passed is the recorded array or equals it element by
\* element, and otherwise a symbol no earlier render returned.
C19_SignalChangesWithArray ==
    (hook.kind = "useArraySignal" /\ hook.renders >= 2 /\ hook.fresh) =>
        IF sameAsRecorded
          THEN hook.signal = hook.prevSignal
          ELSE hook.signal # hook.prevSignal /\ hook.signal \notin hook.returned

\* the recorded array is a proper prefix of the array passed
C19_Witness ==
    /\ hook.kind = "useArraySignal" /\ hook.renders >= 2 /\ hook.fresh
    /\ hook.data # hook.prevDataRef
    /\ Len(hook.arrays[hook.prevDataRef]) = 1
    /\ Len(hook.arrays[hook.data]) = 2
    /\ hook.arrays[hook.prevDataRef][1] = hook.arrays[hook.data][1]
    /\ hook.signal # hook.prevSignal

\* --------------------------------------------------------------------- C21
\* C21: with a transform, every node in the result has exactly one transform
\* call and no other node has one; the call gets isTrue = the predicate on
\* the node and hasParentIsTrue = whether the predicate is true on a proper
\* ancestor (both false for a node added only for a descendant).  The
\* predicate is evaluated once per walked node, every node of the forest
\* when the walk starts at the returned fiber, and trueFibers is the set of
\* fibers it was true on.
C21_TransformAndPredicateCalls ==
    searchDone =>
        /\ ~transform => result.transformCalls = <<>>
        /\ transform =>
             /\ Len(result.transformCalls) = Cardinality(addedNodes)
             /\ \A n \in walkedNodes \ addedNodes : callsFor(n) = {}
             /\ \A n \in addedNodes :
                   /\ Cardinality(callsFor(n)) = 1
                   /\ \A i \in callsFor(n) :
                         /\ result.transformCalls[i].isTrue = (n \in callback)
                         /\ result.transformCalls[i].hasParentIsTrue = hasTrueAncestor(n)
                   /\ result.outNodes[outNodeOf(n)].isTrue = (n \in callback)
                   /\ result.outNodes[outNodeOf(n)].hasParentIsTrue = hasTrueAncestor(n)
        /\ \A i, j \in 1..Len(visited) : visited[i] = visited[j] => i = j
        /\ start = first => walkedNodes = nodeSet(tree)
        /\ result.trueFibers = { f \in seqRange(visited) : fibers[f].data \in callback }

\* one node was added for a descendant with both flags false, one node the
\* predicate is true on has a true ancestor, and one node was left out
C21_Witness ==
    /\ searchDone /\ transform
    /\ \E n \in addedNodes :
          /\ n \notin callback /\ ~hasTrueAncestor(n)
          /\ \A i \in callsFor(n) :
                ~result.transformCalls[i].isTrue /\ ~result.transformCalls[i].hasParentIsTrue
    /\ \E n \in addedNodes : n \in callback /\ hasTrueAncestor(n)
    /\ walkedNodes \ addedNodes # {}

\* ================================================================ useAsync
\* calls of next() one generator is given at most
MaxSteps == 2

\* runs of the effect in the life of one component
MaxRuns == 2

\* what the component passes as callbackOrDeps and as deps
AsyncArgs ==
    [ callbackOrDeps : { "undefined", "function", "array" },
      arr : { << v >> : v \in Vals },
      deps : { [ given |-> FALSE, arr |-> <<>> ] }
             \cup { [ given |-> TRUE, arr |-> << v >> ] : v \in Vals } ]

\* the dependency list useAsync hands to useEffect
dependencyList(args) ==
    IF args.callbackOrDeps = "function" THEN args.deps
    ELSE [ given |-> args.callbackOrDeps = "array",
           arr |-> IF args.callbackOrDeps = "array" THEN args.arr ELSE <<>> ]

\* whether useEffect runs the effect again: no list, or an element changed
effectReruns(prev, next) ==
    \/ ~next.given
    \/ ~prev.given
    \/ depsChanged(prev.arr, next.arr)

\* one run of the effect: its generator, its stop flag, where run() is,
\* and what has been called so far
\*   overlap       a next() was called while one was pending
\*   nextAfterStop a next() was called after stop was set
\*   callbackBeforeStop  callbackOrDeps() was called with stop still false
newRun(isGen, hasCallback) ==
    [ isGen |-> isGen, hasCallback |-> hasCallback,
      stop |-> FALSE, pending |-> FALSE, ended |-> "no",
      nextCalls |-> 0, returnCalls |-> 0,
      overlap |-> FALSE, nextAfterStop |-> FALSE,
      cleanups |-> 0, pendingAtCleanup |-> FALSE,
      callbackCalls |-> 0, callbackBeforeStop |-> FALSE ]

\* generator.next() is called and awaited
generatorNext(g) ==
    [ g EXCEPT !.overlap = @ \/ g.pending,
               !.nextAfterStop = @ \/ g.stop,
               !.pending = TRUE,
               !.nextCalls = @ + 1 ]

\* run() up to its first await
run(g) == IF g.isGen THEN generatorNext(g) ELSE [ g EXCEPT !.ended = "notGenerator" ]

\* a variant of the loop that does not look at stop
resume_ignoreStop(g, outcome) ==
    LET r == [ g EXCEPT !.pending = FALSE ]
    IN IF outcome = "reject" THEN [ r EXCEPT !.ended = "rejected" ]
       ELSE IF outcome = "done"
            THEN [ r EXCEPT !.returnCalls = @ + 1, !.ended = "returned" ]
            ELSE generatorNext(r)

\* run() from the point the awaited next() settles to its next await or end
resume(g, outcome) ==
    LET r == [ g EXCEPT !.pending = FALSE ]
    IN IF outcome = "reject" THEN [ r EXCEPT !.ended = "rejected" ]
       ELSE IF outcome = "done" \/ r.stop
            THEN [ r EXCEPT !.returnCalls = @ + 1, !.ended = "returned" ]
            ELSE generatorNext(r)

\* the function the effect returns
cleanup(g) ==
    LET stopped == [ g EXCEPT !.stop = TRUE,
                              !.cleanups = @ + 1,
                              !.pendingAtCleanup = g.pending ]
    IN IF stopped.hasCallback
       THEN [ stopped EXCEPT !.callbackCalls = @ + 1,
                             !.callbackBeforeStop = @ \/ ~stopped.stop ]
       ELSE stopped

AsyncHookInit ==
    /\ fiberIdle
    /\ hook = [ kind |-> "useAsync", mounted |-> FALSE,
                deps |-> [ given |-> FALSE, arr |-> <<>> ], runs |-> <<>> ]

\* one render and commit of a component that calls
\* useAsync(effect, callbackOrDeps, deps); isGen says whether effect()
\* returns an async generator, a new one in every run
AsyncHookRender ==
    /\ hook.kind = "useAsync"
    /\ hook.runs = <<>> \/ hook.mounted
    /\ \E args \in AsyncArgs, isGen \in BOOLEAN :
         LET mount == hook.runs = <<>>
             list == dependencyList(args)
             rerun == mount \/ effectReruns(hook.deps, list)
             n == Len(hook.runs)
             cleaned == IF mount THEN hook.runs
                        ELSE [ hook.runs EXCEPT ![n] = cleanup(@) ]
             started == run(newRun(isGen, args.callbackOrDeps = "function"))
         IN /\ rerun => Len(hook.runs) < MaxRuns
            /\ hook' = [ hook EXCEPT
                           !.mounted = TRUE,
                           !.deps = IF rerun THEN list ELSE @,
                           !.runs = IF rerun THEN Append(cleaned, started) ELSE @ ]
    /\ UNCHANGED fiberVars

\* the component unmounts: the cleanup of the last run of the effect runs
AsyncHookUnmount ==
    /\ hook.kind = "useAsync"
    /\ hook.mounted
    /\ hook' = [ hook EXCEPT !.mounted = FALSE,
                             !.runs[Len(hook.runs)] = cleanup(@) ]
    /\ UNCHANGED fiberVars

\* the promise of a pending next() settles and run() goes on; a generator
\* yields at most MaxSteps - 1 times
AsyncHookSettle ==
    /\ hook.kind = "useAsync"
    /\ \E i \in 1..Len(hook.runs), outcome \in { "yield", "done", "reject" } :
         /\ hook.runs[i].pending
         /\ outcome = "yield" => hook.runs[i].nextCalls < MaxSteps
         /\ hook' = [ hook EXCEPT !.runs[i] = resume(@, outcome) ]
    /\ UNCHANGED fiberVars

AsyncHookNext ==
    \/ AsyncHookRender
    \/ AsyncHookUnmount
    \/ AsyncHookSettle

AsyncHookSpec == AsyncHookInit /\ [][AsyncHookNext]_vars

\* --------------------------------------------------------------------- C22
\* C22: in every run of the effect next() is never called while a next() is
\* pending, and never after the cleanup has run; a run whose cleanup found a
\* step pending has, once that step has resolved, called return() once and
\* ended its loop; the cleanup callback has been called once per cleanup,
\* with the stop flag already set.
C22_AsyncLoopAndCleanup ==
    hook.kind = "useAsync" =>
        \A i \in 1..Len(hook.runs) :
            LET g == hook.runs[i]
            IN /\ ~g.overlap
               /\ ~g.nextAfterStop
               /\ g.cleanups <= 1
               /\ (g.stop /\ g.pendingAtCleanup /\ ~g.pending /\ g.ended # "rejected")
                     => g.returnCalls = 1 /\ g.ended = "returned"
               /\ g.returnCalls <= 1
               /\ g.callbackCalls = (IF g.hasCallback THEN g.cleanups ELSE 0)
               /\ ~g.callbackBeforeStop

\* a generator that has yielded was cleaned up with a step pending and its
\* callback called, the step resolved and return() was called, while the
\* generator of the next run of the effect has a step pending
C22_Witness ==
    /\ hook.kind = "useAsync"
    /\ \E i \in 1..Len(hook.runs) :
          LET g == hook.runs[i]
          IN /\ g.nextCalls >= 2 /\ g.pendingAtCleanup /\ ~g.pending
             /\ g.ended = "returned" /\ g.returnCalls = 1
             /\ g.hasCallback /\ g.callbackCalls = 1
             /\ i < Len(hook.runs) /\ hook.runs[i + 1].pending

\* =========================================================== useScrollMemo
\* scroll positions of the element
Positions == { [ left |-> 0, top |-> 0 ], [ left |-> 5, top |-> 7 ] }

\* a value of a property of a parsed object
numberField(n) == [ type |-> "number", n |-> n ]
otherField(type) == [ type |-> type, n |-> 0 ]

\* what storage.getItem(key) returns: null for a missing item, or a string
\* that is not JSON, that is the JSON of null, or that is the JSON of an
\* object with properties left and top
missingItem == [ form |-> "missing", left |-> otherField("undefined"), top |-> otherField("undefined") ]
StoredItems ==
    { missingItem,
      [ form |-> "garbage", left |-> otherField("undefined"), top |-> otherField("undefined") ],
      [ form |-> "null", left |-> otherField("undefined"), top |-> otherField("undefined") ],
      [ form |-> "object", left |-> numberField(5), top |-> otherField("undefined") ],
      [ form |-> "object", left |-> otherField("string"), top |-> numberField(7) ] }
    \cup { [ form |-> "object", left |-> numberField(p.left), top |-> numberField(p.top) ] : p \in Positions }

\* JSON.stringify({ left: scrollLeft, top: scrollTop })
JSONstringify(scrollLeft, scrollTop) ==
    [ form |-> "object", left |-> numberField(scrollLeft), top |-> numberField(scrollTop) ]

\* the try block of the effect up to the test of left and top: it throws
\* on a missing item, on a string JSON.parse rejects and on destructuring
\* null; otherwise it has left and top
readStored(value) ==
    IF value.form \in { "missing", "garbage", "null" }
    THEN [ threw |-> TRUE, left |-> otherField("undefined"), top |-> otherField("undefined") ]
    ELSE [ threw |-> FALSE, left |-> value.left, top |-> value.top ]

\* whether the try block goes on to restore the position
restores(read) ==
    ~read.threw /\ read.left.type = "number" /\ read.top.type = "number"

\* delay as given: undefined, zero or a positive number of milliseconds
Delays == { "undefined", "zero", "positive" }

\* whether the restore is put on a timer
delayed(delay) == delay = "positive"

\* the options of one render; the target is null, the element, or a ref
\* whose current is the element or null
Targets == { "null", "element", "ref" }
ScrollMemoOptions ==
    [ target : Targets, current : BOOLEAN, key : { "k1", "k2" },
      ready : BOOLEAN, delay : Delays, behavior : { "auto", "smooth" } ]

\* the dependency list of the effect: [target, storage, key, ready, behavior]
scrollDeps(o) == << o.target, "sessionStorage", o.key, o.ready, o.behavior >>

\* the element the effect works on, if any
hasElement(o) ==
    /\ o.ready
    /\ o.target # "null"
    /\ o.target = "ref" => o.current

\* the empty catch block: nothing the try block throws leaves the effect
uncaught(threw) == FALSE

\* the effect of one render, run on storage st with the element at pos;
\* gives the run and the position of the element after it
\*   timeout   "none", "scheduled", "fired" or "cleared"
\*   scrolledAfterCleanup, wroteAfterCleanup  what the run did once cleaned
scrollSetup(o, st, pos) ==
    IF ~hasElement(o)
    THEN [ run |-> [ installed |-> FALSE, key |-> o.key, listening |-> FALSE,
                     timeout |-> "none", to |-> pos, read |-> "skipped",
                     scrolls |-> 0, error |-> FALSE, cleaned |-> FALSE,
                     scrolledAfterCleanup |-> FALSE, wroteAfterCleanup |-> FALSE ],
           pos |-> pos ]
    ELSE LET read == readStored(st[o.key])
             go == restores(read)
             to == IF go THEN [ left |-> read.left.n, top |-> read.top.n ] ELSE pos
             now == go /\ ~delayed(o.delay)
         IN [ run |-> [ installed |-> TRUE, key |-> o.key, listening |-> TRUE,
                        timeout |-> IF go /\ delayed(o.delay) THEN "scheduled" ELSE "none",
                        to |-> to,
                        read |-> IF read.threw THEN "caught" ELSE IF go THEN "position" ELSE "notNumbers",
                        scrolls |-> IF now THEN 1 ELSE 0,
                        error |-> uncaught(read.threw), cleaned |-> FALSE,
                        scrolledAfterCleanup |-> FALSE, wroteAfterCleanup |-> FALSE ],
                pos |-> IF now THEN to ELSE pos ]

\* a variant of the cleanup that leaves the timer alone
scrollCleanup_keepTimer(r) ==
    IF ~r.installed THEN r
    ELSE [ r EXCEPT !.cleaned = TRUE, !.listening = FALSE ]

\* the function the effect returns: clearTimeout and removeEventListener;
\* a run that returned early has no cleanup
scrollCleanup(r) ==
    IF ~r.installed THEN r
    ELSE [ r EXCEPT !.cleaned = TRUE,
                    !.timeout = IF @ = "scheduled" THEN "cleared" ELSE @,
                    !.listening = FALSE ]

ScrollHookInit ==
    /\ fiberIdle
    /\ \E item \in StoredItems, p \in Positions :
         hook = [ kind |-> "useScrollMemo", mounted |-> FALSE,
                  deps |-> <<>>, runs |-> <<>>,
                  storage |-> [ k \in { "k1", "k2" } |-> IF k = "k1" THEN item ELSE missingItem ],
                  pos |-> p ]

\* one render and commit of a component that calls useScrollMemo(options)
ScrollHookRender ==
    /\ hook.kind = "useScrollMemo"
    /\ hook.runs = <<>> \/ hook.mounted
    /\ \E o \in ScrollMemoOptions :
         LET mount == hook.runs = <<>>
             rerun == mount \/ depsChanged(hook.deps, scrollDeps(o))
             n == Len(hook.runs)
             cleaned == IF mount THEN hook.runs
                        ELSE [ hook.runs EXCEPT ![n] = scrollCleanup(@) ]
             set == scrollSetup(o, hook.storage, hook.pos)
         IN /\ rerun => Len(hook.runs) < MaxRuns
            /\ hook' = [ hook EXCEPT
                           !.mounted = TRUE,
                           !.deps = IF rerun THEN scrollDeps(o) ELSE @,
                           !.runs = IF rerun THEN Append(cleaned, set.run) ELSE @,
                           !.pos = IF rerun THEN set.pos ELSE @ ]
    /\ UNCHANGED fiberVars

\* the component unmounts
ScrollHookUnmount ==
    /\ hook.kind = "useScrollMemo"
    /\ hook.mounted
    /\ hook' = [ hook EXCEPT !.mounted = FALSE,
                             !.runs[Len(hook.runs)] = scrollCleanup(@) ]
    /\ UNCHANGED fiberVars

\* a timer that is still scheduled fires and scrolls the element
ScrollHookTimeout ==
    /\ hook.kind = "useScrollMemo"
    /\ \E i \in 1..Len(hook.runs) :
         /\ hook.runs[i].timeout = "scheduled"
         /\ hook' = [ hook EXCEPT
                        !.runs[i] = [ @ EXCEPT !.timeout = "fired",
                                               !.scrolls = @ + 1,
                                               !.scrolledAfterCleanup = hook.runs[i].cleaned ],
                        !.pos = hook.runs[i].to ]
    /\ UNCHANGED fiberVars

\* the element is scrolled to p and its scroll event is dispatched to the
\* listeners that are on it
ScrollHookScroll ==
    /\ hook.kind = "useScrollMemo"
    /\ \E p \in Positions :
         LET hear == { i \in 1..Len(hook.runs) : hook.runs[i].listening }
             keys == { hook.runs[i].key : i \in hear }
         IN hook' = [ hook EXCEPT
                        !.pos = p,
                        !.storage = [ k \in DOMAIN @ |->
                                        IF k \in keys THEN JSONstringify(p.left, p.top) ELSE @[k] ],
                        !.runs = [ i \in DOMAIN @ |->
                                     IF i \in hear
                                     THEN [ @[i] EXCEPT !.wroteAfterCleanup = @ \/ hook.runs[i].cleaned ]
                                     ELSE @[i] ] ]
    /\ UNCHANGED fiberVars

ScrollHookNext ==
    \/ ScrollHookRender
    \/ ScrollHookUnmount
    \/ ScrollHookTimeout
    \/ ScrollHookScroll

ScrollHookSpec == ScrollHookInit /\ [][ScrollHookNext]_vars

\* --------------------------------------------------------------------- C23
\* C23: a run of the effect whose cleanup has run has no restore scheduled
\* and no listener, and has neither scrolled the element nor written to
\* storage since; a run that found a missing, unparsable or non-numeric
\* item has not scrolled, has raised no error and has its listener until
\* its cleanup; and every scroll event leaves the position of the element
\* under the key of the run that is set up and not cleaned up.
C23_ScrollMemoCleanup ==
    /\ [](hook.kind = "useScrollMemo" =>
            \A i \in 1..Len(hook.runs) :
                LET r == hook.runs[i]
                IN /\ ~r.scrolledAfterCleanup
                   /\ ~r.wroteAfterCleanup
                   /\ r.cleaned => r.timeout # "scheduled" /\ ~r.listening
                   /\ (r.installed /\ ~r.cleaned) => r.listening
                   /\ ~r.error
                   /\ r.read \in { "caught", "notNumbers" } =>
                         r.scrolls = 0 /\ r.timeout = "none")
    /\ [][ScrollHookScroll =>
            \A i \in 1..Len(hook.runs) :
                (hook.runs[i].installed /\ ~hook.runs[i].cleaned) =>
                    hook'.storage[hook.runs[i].key] = JSONstringify(hook'.pos.left, hook'.pos.top)]_vars

\* the cleanup of one run cancelled a restore that was scheduled, and a
\* later run that found no usable item has its listener and a scroll event
\* has put the position of the element under its key
C23_Witness ==
    /\ hook.kind = "useScrollMemo"
    /\ \E i, j \in 1..Len(hook.runs) :
          /\ i < j
          /\ hook.runs[i].cleaned /\ hook.runs[i].timeout = "cleared"
          /\ hook.runs[i].scrolls = 0
          /\ hook.runs[j].read \in { "caught", "notNumbers" }
          /\ hook.runs[j].listening /\ hook.runs[j].scrolls = 0
          /\ hook.storage[hook.runs[j].key] = JSONstringify(hook.pos.left, hook.pos.top)

\* =========================================================== useQueryState
\* a string is the sequence of its parts, so that "1" made from the number
\* 1 and the string "1" are the same string
Text(part) == << part >>

\* values of a property of a state object: undefined, null, a string, a
\* number, or an array of strings and numbers
scalar(type, str, num) == [ type |-> type, str |-> str, num |-> num ]
undefinedValue == [ type |-> "undefined", str |-> <<>>, num |-> 0, items |-> <<>> ]
nullValue == [ type |-> "null", str |-> <<>>, num |-> 0, items |-> <<>> ]
stringValue(str) == [ type |-> "string", str |-> str, num |-> 0, items |-> <<>> ]
numberValue(num) == [ type |-> "number", str |-> <<>>, num |-> num, items |-> <<>> ]
arrayValue(items) == [ type |-> "array", str |-> <<>>, num |-> 0, items |-> items ]

\* the decimal numeral of a number
numeral(num) == Text(<< "0", "1", "2" >>[num + 1])

\* String(item) for an item of an array
StringOfItem(item) ==
    CASE item.type = "string" -> item.str
      [] item.type = "number" -> numeral(item.num)
      [] item.type = "null" -> Text("null")
      [] OTHER -> Text("undefined")

\* items.join(",")
RECURSIVE join(_)
join(items) ==
    IF items = <<>> THEN <<>>
    ELSE IF Len(items) = 1 THEN StringOfItem(items[1])
    ELSE StringOfItem(items[1]) \o Text(",") \o join(Tail(items))

\* String(value)
String(value) ==
    IF value.type = "array" THEN join(value.items)
    ELSE StringOfItem(scalar(value.type, value.str, value.num))

\* URLSearchParams: a sequence of entries
entry(key, value) == [ key |-> key, value |-> value ]

\* searchParams.getAll(key)
getAll(params, key) ==
    LET found == SelectSeq(params, LAMBDA e : e.key = key)
    IN [ i \in 1..Len(found) |-> found[i].value ]

\* searchParams.delete(key)
delete(params, key) == SelectSeq(params, LAMBDA e : e.key # key)

\* searchParams.append(key, String(item)) for every item
appendAll(params, key, items) ==
    params \o [ i \in 1..Len(items) |-> entry(key, StringOfItem(items[i])) ]

\* searchParams.set(key, value): the first entry of the key gets the value
\* and its other entries go; a key with no entry gets one at the end
set(params, key, value) ==
    IF \A i \in 1..Len(params) : params[i].key # key
    THEN Append(params, entry(key, value))
    ELSE LET at == CHOOSE i \in 1..Len(params) :
                      /\ params[i].key = key
                      /\ \A j \in 1..(i - 1) : params[j].key # key
             marked == [ i \in 1..Len(params) |->
                           [ e |-> IF i = at THEN entry(key, value) ELSE params[i],
                             keep |-> i = at \/ params[i].key # key ] ]
             kept == SelectSeq(marked, LAMBDA m : m.keep)
         IN [ i \in 1..Len(kept) |-> kept[i].e ]

\* the parameters the component tracks, and one it does not
QueryKeys == { "p", "q" }
OtherKey == "u"

\* the search parameters of the page when the component mounts
InitialEntries == { entry(k, Text("b")) : k \in QueryKeys \cup { OtherKey } }
InitialParams ==
    { <<>> } \cup { << e >> : e \in InitialEntries }
             \cup { << e, f >> : e, f \in InitialEntries }

\* options of one render: keys is [] or ["p"]; parse has no key, or the key
\* q with (value) => value or (value, values) => values; stringify has no
\* key, or the key q with value => String(value) or
\* value => value == null ? null : String(value); deps is left out
QueryStateOptions ==
    [ keys : { <<>>, << "p" >> },
      parse : { "absent", "first", "all" },
      stringify : { "none", "String", "orNull" },
      deps : { <<>> } ]

\* stringify[key]
stringifyOf(stringify, key) == IF key = "q" THEN stringify ELSE "none"

\* keys.concat(Object.keys(parse))
totalKeys(o) == o.keys \o (IF o.parse = "absent" THEN <<>> ELSE << "q" >>)

\* the reduce over totalKeys: one property per key, in the order in which
\* the keys first come
RECURSIVE searchOf(_, _, _)
searchOf(params, keys, done) ==
    IF keys = <<>> THEN done
    ELSE IF \E i \in 1..Len(done) : done[i].key = Head(keys)
         THEN searchOf(params, Tail(keys),
                       [ i \in 1..Len(done) |->
                           IF done[i].key = Head(keys)
                           THEN [ key |-> Head(keys), values |-> getAll(params, Head(keys)) ]
                           ELSE done[i] ])
         ELSE searchOf(params, Tail(keys),
                       Append(done, [ key |-> Head(keys), values |-> getAll(params, Head(keys)) ]))

\* Object.keys(search)
searchKeys(search) == [ i \in 1..Len(search) |-> search[i].key ]

compareSearch(a, b) ==
    /\ compareArray(searchKeys(a), searchKeys(b))
    /\ \A i \in 1..Len(a) : compareArray(a[i].values, b[i].values)

\* the property of queryState for one property of search
parsedValue(parser, values) ==
    IF parser = "all"
    THEN arrayValue([ i \in 1..Len(values) |-> scalar("string", values[i], 0) ])
    ELSE IF values = <<>> THEN undefinedValue ELSE stringValue(values[1])

\* the reduce over Object.entries(search) in useMemo
queryStateOf(search, parse) ==
    [ k \in QueryKeys |->
        IF \E i \in 1..Len(search) : search[i].key = k
        THEN LET i == CHOOSE i \in 1..Len(search) : search[i].key = k
             IN parsedValue(IF k = "q" THEN parse ELSE "absent", search[i].values)
        ELSE undefinedValue ]

\* stringify[key](value)
stringifier(kind, value) ==
    IF kind = "orNull" /\ value.type \in { "undefined", "null" }
    THEN nullValue
    ELSE stringValue(String(value))

\* the body of the forEach of setQueryState for one key
setKey(params, key, value, kind) ==
    LET newValue == IF kind = "none" THEN value ELSE stringifier(kind, value)
    IN IF newValue.type \in { "undefined", "null" } THEN delete(params, key)
       ELSE IF newValue.type = "array"
            THEN appendAll(delete(params, key), key, newValue.items)
            ELSE set(params, key, String(newValue))

\* Object.keys(search).forEach(...)
RECURSIVE setKeys(_, _, _, _)
setKeys(params, keys, newState, stringify) ==
    IF keys = <<>> THEN params
    ELSE setKeys(setKey(params, Head(keys), newState[Head(keys)], stringifyOf(stringify, Head(keys))),
                 Tail(keys), newState, stringify)

\* state objects the component passes to setQueryState; a property that is
\* undefined stands for one that is left out as well
NewValues ==
    { undefinedValue, nullValue, numberValue(1),
      arrayValue(<< scalar("string", Text("a"), 0), scalar("number", <<>>, 1) >>) }
NewStates == [ QueryKeys -> NewValues ]

QueryHookInit ==
    /\ fiberIdle
    /\ \E params \in InitialParams :
         hook = [ kind |-> "useQueryState", mounted |-> FALSE,
                  url |-> params,
                  cache |-> [ searchParams |-> <<>>, search |-> <<>>,
                              parse |-> "absent",
                              stringify |-> "none",
                              deps |-> <<>> ],
                  queryState |-> [ k \in QueryKeys |-> undefinedValue ],
                  newState |-> [ k \in QueryKeys |-> undefinedValue ] ]

\* one render of a component that calls useNativeQueryState(options), or
\* useQueryState(options) with the search parameters of the router; url is
\* what the search parameters of the render are read from
QueryHookRender ==
    /\ hook.kind = "useQueryState"
    /\ \E o \in QueryStateOptions :
         LET searchParams == hook.url
             search == searchOf(searchParams, totalKeys(o), <<>>)
             made == [ searchParams |-> searchParams, search |-> search,
                       parse |-> o.parse, stringify |-> o.stringify, deps |-> o.deps ]
             current == IF hook.mounted
                        THEN [ hook.cache EXCEPT !.searchParams = searchParams ]
                        ELSE made
             replaced == \/ ~compareSearch(current.search, search)
                         \/ ~compareArray(current.deps, o.deps)
         IN hook' = [ hook EXCEPT
                        !.mounted = TRUE,
                        !.cache = IF replaced THEN made ELSE current,
                        !.queryState = IF ~hook.mounted \/ replaced
                                       THEN queryStateOf(search, o.parse) ELSE @,
                        !.newState = [ k \in QueryKeys |-> undefinedValue ] ]
    /\ UNCHANGED fiberVars

\* setQueryState(state), with state an object or the function
\* prevState => prevState; setSearchParams puts the result in the url;
\* newState keeps the state of the last call since the last render
QuerySetQueryState ==
    /\ hook.kind = "useQueryState"
    /\ hook.mounted
    /\ \E isFunction \in BOOLEAN, state \in NewStates :
         LET newState == IF isFunction THEN hook.queryState ELSE state
             newSearchParams == setKeys(hook.cache.searchParams,
                                        searchKeys(hook.cache.search),
                                        newState, hook.cache.stringify)
         IN hook' = [ hook EXCEPT !.url = newSearchParams,
                                  !.newState = newState ]
    /\ UNCHANGED fiberVars

QueryHookNext ==
    \/ QueryHookRender
    \/ QuerySetQueryState

QueryHookSpec == QueryHookInit /\ [][QueryHookNext]_vars

\* --------------------------------------------------------------------- C24
\* the keys setQueryState works on, and the value it has for a key once
\* stringify[key], when given, has been applied
trackedKeys == seqRange(searchKeys(hook.cache.search))
stringified(newState, key) ==
    LET kind == stringifyOf(hook.cache.stringify, key)
    IN IF kind = "none" THEN newState[key] ELSE stringifier(kind, newState[key])

\* C24: a call of setQueryState leaves every untracked parameter with the
\* values it had; a tracked key has no entry when its value (after
\* stringify[key], when given) is undefined or null, the items as strings
\* in order when it is an array, and else the one string String(value);
\* and a tracked key that the new state leaves out has no entry.
C24_SetQueryStateFrame ==
    [][QuerySetQueryState =>
         /\ \A k \in (QueryKeys \cup { OtherKey }) \ trackedKeys :
               getAll(hook'.url, k) = getAll(hook.cache.searchParams, k)
         /\ \A k \in trackedKeys :
               LET value == stringified(hook'.newState, k)
               IN getAll(hook'.url, k) =
                    (IF value.type \in { "undefined", "null" } THEN <<>>
                     ELSE IF value.type = "array"
                          THEN [ i \in 1..Len(value.items) |-> StringOfItem(value.items[i]) ]
                          ELSE << String(value) >>)
         /\ \A k \in trackedKeys :
               hook'.newState[k].type = "undefined" => getAll(hook'.url, k) = <<>>]_vars

====
